---- MODULE Spec2Model ----
(***************************************************************************)
(* Model of loadreviewtools.py: the schema registry, the plot-file parser  *)
(* _readfile, the two writers writePropData and writeChecklistData with    *)
(* the section formatter _writeReportData, the command-line driver and the *)
(* publish step force_link.                                                *)
(*                                                                         *)
(* A Python call either returns or raises.  An operator that models a call *)
(* yields a record whose field err is "none" or the name of the exception  *)
(* raised; what the call had written before it raised is kept.             *)
(***************************************************************************)
EXTENDS Integers, Sequences, FiniteSets, TLC

VARIABLES
    pc,             \* position of the running program
    err,            \* "none", or the exception that ended the program
    where,          \* "none", or the call that raised it
    args,           \* the parsed command line
    invoked,        \* the writers called so far, in order
    headerinfo,     \* self.headerinfo of the last constructed object
    propschedule,   \* self.propschedule
    reviewschedule, \* self.reviewschedule
    cwd,            \* working directory: file name -> inode
    inodes,         \* inode -> content (a sequence of lines)
    parent,         \* parent directory: file name -> inode
    tmpdir,         \* entries of the TemporaryDirectory, or NoDir
    todo,           \* files the publish loop has still to link
    stdout,         \* everything written to sys.stdout
    result,         \* value returned by the last call of a pure function
    seen,           \* what a concurrent reader of the destination last read
    before          \* the parent directory's files when the program started

vars ==
    << pc, err, where, args, invoked, headerinfo, propschedule, reviewschedule,
       cwd, inodes, parent, tmpdir, todo, stdout, result, seen, before >>

(***************************************************************************)
(* Bounds of the model.                                                    *)
(***************************************************************************)
MaxRows ==
    2

MaxParseRows ==
    2

MaxReportRows ==
    4

(***************************************************************************)
(* Generic helpers.                                                        *)
(***************************************************************************)
Range(s) ==
    { s[i] : i \in 1..Len(s) }

Min(S) ==
    CHOOSE x \in S : \A y \in S : x <= y

Max(S) ==
    CHOOSE x \in S : \A y \in S : x >= y

None ==
    "<None>"

\* The value of a sequence or function expression, computed once.
Tuple(f) ==
    f \o << >>

Fcn(f) ==
    f @@ << >>

(***************************************************************************)
(* The schema registry built by __init__.                                  *)
(***************************************************************************)
fileparts ==
    ("psmc" :> "_1pdeaat_plot.txt") @@
    ("dpa" :> "_dpa_plot.txt") @@
    ("dea" :> "_dea_plot.txt") @@
    ("tank" :> "_pftank2t_plot.txt") @@
    ("aca" :> "_aca_plot.txt") @@
    ("mups" :> "_mups_valves_plot.txt") @@
    ("oba" :> "_4rt700t_plot.txt") @@
    ("pline03t" :> "_pline03t_plot.txt") @@
    ("pline04t" :> "_pline04t_plot.txt") @@
    ("hrc" :> "_2ceahvpt_plot.txt") @@
    ("acisfp" :> "_acis_fp_plot.txt")

InitHeaderinfo ==
    ("psmc" :> [columns |-> 6,
        names |-> <<
            "Time", "1PDEAAT", "PIN1AT", "Pitch", "Roll",
            "Sun_Body_Y" >>,
        title |-> "ACIS: PSMC"]) @@
    ("dpa" :> [columns |-> 11,
        names |-> <<
            "Time", "1DPAMZT", "DPA0", "Pitch", "Roll",
            "Sun_Body_Y", "SimPos", "FEP_Count", "CCD_Count", "Vid_Board",
            "Clocking" >>,
        title |-> "ACIS: DPA"]) @@
    ("dea" :> [columns |-> 11,
        names |-> <<
            "Time", "1DEAMZT", "DEA0", "Pitch", "Roll",
            "Sun_Body_Y", "SimPos", "FEP_Count", "CCD_Count", "Vid_Board",
            "Clocking" >>,
        title |-> "ACIS: DEA"]) @@
    ("tank" :> [columns |-> 7,
        names |-> <<
            "Time", "PFTANK2T", "PFTANKIP", "PF0TANK2T", "Pitch",
            "Roll", "Sun_Body_Y" >>,
        title |-> "Spacecraft: Fuel Tank"]) @@
    ("aca" :> [columns |-> 5,
        names |-> <<
            "Time", "AACCCDPT", "ACA0", "Pitch", "Roll" >>,
        title |-> "Spacecraft: Aspect Camera"]) @@
    ("mups" :> [columns |-> 6,
        names |-> <<
            "Time", "PM1THV2T", "PM1THV2T_0", "PM2THV1T", "PM2THV1T_0",
            "PM2THV1T_1" >>,
        title |-> "Spacecraft: MUPS Valves"]) @@
    ("cc" :> [columns |-> 5,
        names |-> <<
            "Time", "TCYLAFT6", "TCYLAFT6_0", "Pitch", "Roll" >>,
        title |-> "Spacecraft: Central Cylinder"]) @@
    ("oba" :> [columns |-> 5,
        names |-> <<
            "Time", "4RT700T", "4RT700T_0", "Pitch", "Roll" >>,
        title |-> "OBA: Forward Bulkhead"]) @@
    ("pline03t" :> [columns |-> 5,
        names |-> <<
            "Time", "PLINE03T", "PLINE03T_0", "Pitch", "Roll" >>,
        title |-> "PLINE03T"]) @@
    ("pline04t" :> [columns |-> 5,
        names |-> <<
            "Time", "PLINE04T", "PLINE04T_0", "Pitch", "Roll" >>,
        title |-> "PLINE04T"]) @@
    ("hrc" :> [columns |-> 19,
        names |-> <<
            "Time", "2CEAHVPT", "CEA0", "CEA1", "15V",
            "24V", "HRCI", "HRCS", "Shield", "5V_A",
            "5V_B", "Pitch", "Roll", "SimPos", "FEP_Count",
            "CCD_Count", "Vid_Board", "Clocking", "DH_Heater" >>,
        title |-> "ISIM: HRC CEA"]) @@
    ("acisfp" :> [columns |-> 23,
        names |-> <<
            "Time", "FPTEMP", "FPTEMP_Rel", "Solid_Angle", "in_out",
            "1CBAT", "SIM_PX", "Pitch", "Roll", "Sun_Body_Y",
            "SimPos", "FEP_Count", "CCD_Count", "Vid_Board", "Clocking",
            "CTI", "Radmon_Enabled", "DH_Heater", "ACIS_NIL_Undercover", "SI",
            "Cold_FP", "FPTEMP_Limit", "Within_Limit" >>,
        title |-> "ISIM: ACIS FP"])

propnames == <<
    "PM1THV2T", "PM1THV2T_0", "PM2THV1T", "PM2THV1T_0", "PM2THV1T_1",
    "1PDEAAT", "PIN1AT", "TCYLAFT6", "TCYLAFT6_0", "1DPAMZT",
    "DPA0", "PFTANK2T", "PF0TANK2T", "SimPos", "chips",
    "FEP_Count", "CCD_Count", "Vid_Board", "Clocking", "AACCCDPT",
    "ACA0", "4RT700T", "4RT700T_0", "1DEAMZT", "DEA0",
    "Roll", "Sun_Body_Y", "PLINE03T", "PLINE03T_0", "PLINE04T",
    "PLINE04T_0", "2CEAHVPT", "CEA0", "CEA1", "15V",
    "24V", "HRCI", "HRCS", "Shield", "5V_A",
    "5V_B", "FPTEMP", "FPTEMP_Rel", "Solid_Angle", "in_out",
    "1CBAT", "CTI", "Radmon_Enabled", "DH_Heater", "ACIS_NIL_Undercover",
    "SI", "Cold_FP", "FPTEMP_Limit", "Within_Limit" >>

plotorder == <<
    "oba", "tank", "mups", "psmc", "dpa",
    "dea", "aca", "pline03t", "pline04t", "acisfp" >>

lower ==
    ("Time" :> "time") @@
    ("1PDEAAT" :> "1pdeaat") @@
    ("PIN1AT" :> "pin1at") @@
    ("Pitch" :> "pitch") @@
    ("Roll" :> "roll") @@
    ("Sun_Body_Y" :> "sun_body_y") @@
    ("1DPAMZT" :> "1dpamzt") @@
    ("DPA0" :> "dpa0") @@
    ("SimPos" :> "simpos") @@
    ("FEP_Count" :> "fep_count") @@
    ("CCD_Count" :> "ccd_count") @@
    ("Vid_Board" :> "vid_board") @@
    ("Clocking" :> "clocking") @@
    ("1DEAMZT" :> "1deamzt") @@
    ("DEA0" :> "dea0") @@
    ("PFTANK2T" :> "pftank2t") @@
    ("PFTANKIP" :> "pftankip") @@
    ("PF0TANK2T" :> "pf0tank2t") @@
    ("AACCCDPT" :> "aacccdpt") @@
    ("ACA0" :> "aca0") @@
    ("PM1THV2T" :> "pm1thv2t") @@
    ("PM1THV2T_0" :> "pm1thv2t_0") @@
    ("PM2THV1T" :> "pm2thv1t") @@
    ("PM2THV1T_0" :> "pm2thv1t_0") @@
    ("PM2THV1T_1" :> "pm2thv1t_1") @@
    ("TCYLAFT6" :> "tcylaft6") @@
    ("TCYLAFT6_0" :> "tcylaft6_0") @@
    ("4RT700T" :> "4rt700t") @@
    ("4RT700T_0" :> "4rt700t_0") @@
    ("PLINE03T" :> "pline03t") @@
    ("PLINE03T_0" :> "pline03t_0") @@
    ("PLINE04T" :> "pline04t") @@
    ("PLINE04T_0" :> "pline04t_0") @@
    ("2CEAHVPT" :> "2ceahvpt") @@
    ("CEA0" :> "cea0") @@
    ("CEA1" :> "cea1") @@
    ("15V" :> "15v") @@
    ("24V" :> "24v") @@
    ("HRCI" :> "hrci") @@
    ("HRCS" :> "hrcs") @@
    ("Shield" :> "shield") @@
    ("5V_A" :> "5v_a") @@
    ("5V_B" :> "5v_b") @@
    ("DH_Heater" :> "dh_heater") @@
    ("FPTEMP" :> "fptemp") @@
    ("FPTEMP_Rel" :> "fptemp_rel") @@
    ("Solid_Angle" :> "solid_angle") @@
    ("in_out" :> "in_out") @@
    ("1CBAT" :> "1cbat") @@
    ("SIM_PX" :> "sim_px") @@
    ("CTI" :> "cti") @@
    ("Radmon_Enabled" :> "radmon_enabled") @@
    ("ACIS_NIL_Undercover" :> "acis_nil_undercover") @@
    ("SI" :> "si") @@
    ("Cold_FP" :> "cold_fp") @@
    ("FPTEMP_Limit" :> "fptemp_limit") @@
    ("Within_Limit" :> "within_limit") @@
    ("chips" :> "chips")

(***************************************************************************)
(* The columns _readfile keeps as strings and the writers print with %s:   *)
(* the list compared with name.lower().                                    *)
(***************************************************************************)
OpaqueNames ==
    { "time", "si", "within_limit", "15v", "24v", "hrci", "hrcs", "shield",
      "5v_a", "5v_b" }

IsOpaque(name) ==
    lower[name] \in OpaqueNames

(***************************************************************************)
(* Double-precision values: a finite number, NaN or an infinity.           *)
(***************************************************************************)
Num(n) ==
    [k |-> "num", v |-> n]

NaN ==
    [k |-> "nan", v |-> 0]

NegInf ==
    [k |-> "ninf", v |-> 0]

PosInf ==
    [k |-> "pinf", v |-> 0]

\* x < y on doubles; every comparison with NaN is false.
Less(x, y) ==
    CASE x.k = "nan" \/ y.k = "nan" -> FALSE
      [] x.k = "ninf" -> y.k # "ninf"
      [] x.k = "pinf" -> FALSE
      [] y.k = "ninf" -> FALSE
      [] y.k = "pinf" -> TRUE
      [] OTHER -> x.v < y.v

\* np.double(token): the tokens that parse, and their values; any other
\* token raises ValueError.
np_double ==
    ("1.0" :> Num(1)) @@ ("1" :> Num(1)) @@ ("3.0" :> Num(3)) @@
    ("5.0" :> Num(5)) @@ ("-2.0" :> Num(-2)) @@ ("nan" :> NaN) @@
    ("-inf" :> NegInf) @@ ("inf" :> PosInf)

Digit ==
    << "0", "1", "2", "3", "4", "5", "6", "7", "8", "9" >>

RECURSIVE NatStr(_)
NatStr(n) ==
    IF n < 10 THEN Digit[n + 1] ELSE NatStr(n \div 10) \o Digit[(n % 10) + 1]

\* "%f" % d
FormatF(d) ==
    CASE d.k = "nan" -> "nan"
      [] d.k = "ninf" -> "-inf"
      [] d.k = "pinf" -> "inf"
      [] OTHER -> (IF d.v < 0 THEN "-" \o NatStr(-d.v) ELSE NatStr(d.v))
                  \o ".000000"

\* "%s" % b: _readfile opens the file "rb", so a kept token is a bytes
\* object and prints as its repr.
FormatS(tok) ==
    "b'" \o tok \o "'"

(***************************************************************************)
(* Results of calls.                                                       *)
(***************************************************************************)
Ok(v) ==
    [err |-> "none", val |-> v]

Raise(e) ==
    [err |-> e, val |-> << >>]

\* One outfile.write(...) whose argument may raise while it is evaluated.
W(text) ==
    [err |-> "none", text |-> text]

WRaise(e) ==
    [err |-> e, text |-> ""]

\* A straight-line sequence of writes: the texts written before the first
\* write that raises, and the exception.
RunWrites(ws) ==
    LET bad == { i \in 1..Len(ws) : ws[i].err # "none" }
        n == IF bad = {} THEN Len(ws) ELSE Min(bad) - 1
    IN  [err |-> IF bad = {} THEN "none" ELSE ws[n + 1].err,
         out |-> [i \in 1..n |-> ws[i].text]]

(***************************************************************************)
(* _readfile(filename, subheaderinfo).  A file is a sequence of lines, a   *)
(* line the sequence of its whitespace-separated tokens.                   *)
(***************************************************************************)
\* A variant that takes the last token of a full line for missing.
CellErrorOffByOne(line, num, name) ==
    IF Len(line) <= num + 1 THEN "IndexError"
    ELSE IF ~IsOpaque(name) /\ line[num + 1] \notin DOMAIN np_double
         THEN "ValueError"
         ELSE "none"

\* line.strip().split()[num], and np.double of it for a numeric column
CellError(line, num, name) ==
    IF Len(line) < num + 1 THEN "IndexError"
    ELSE IF ~IsOpaque(name) /\ line[num + 1] \notin DOMAIN np_double
         THEN "ValueError"
         ELSE "none"

Cell(line, num, name) ==
    IF IsOpaque(name) THEN line[num + 1] ELSE np_double[line[num + 1]]

_readfile(dir, store, filename, subheaderinfo) ==
    IF filename \notin DOMAIN dir THEN Raise("FileNotFoundError")
    ELSE
    LET lines == store[dir[filename]]
    IN  IF Len(lines) = 0 THEN Raise("IndexError")
        ELSE
        LET datalines == Tail(lines)
            names == subheaderinfo.names
            \* cells are read column by column, each column row by row
            bad == { c \in (1..Len(names)) \X (1..Len(datalines)) :
                       CellError(datalines[c[2]], c[1] - 1, names[c[1]])
                           # "none" }
            first == CHOOSE c \in bad : \A d \in bad :
                       c[1] < d[1] \/ (c[1] = d[1] /\ c[2] <= d[2])
        IN  IF bad # {}
            THEN Raise(CellError(datalines[first[2]], first[1] - 1,
                                 names[first[1]]))
            ELSE Ok(Fcn([name \in Range(names) |->
                           LET num == Max({ i \in 1..Len(names) :
                                              names[i] = name }) - 1
                           IN  Tuple([r \in 1..Len(datalines) |->
                                        Cell(datalines[r], num, name)])]))

(***************************************************************************)
(* Reading a parsed table: data[name][i] with Python's indexing (i from 0, *)
(* a negative i counts from the end), which raises KeyError for a missing  *)
(* column and IndexError for a missing row.                                *)
(***************************************************************************)
At(data, name, i) ==
    IF name \notin DOMAIN data THEN Raise("KeyError")
    ELSE LET col == data[name]
             k == IF i < 0 THEN Len(col) + i + 1 ELSE i + 1
         IN  IF k < 1 \/ k > Len(col) THEN Raise("IndexError")
             ELSE Ok(col[k])

\* np.argmax(a): the first index of a largest element
RECURSIVE ArgmaxFrom(_, _, _)
ArgmaxFrom(a, i, best) ==
    IF i > Len(a) THEN best - 1
    ELSE ArgmaxFrom(a, i + 1, IF Less(a[best], a[i]) THEN i ELSE best)

\* np.argmin(a): the first index of a smallest element
RECURSIVE ArgminFrom(_, _, _)
ArgminFrom(a, i, best) ==
    IF i > Len(a) THEN best - 1
    ELSE ArgminFrom(a, i + 1, IF Less(a[i], a[best]) THEN i ELSE best)

\* A variant that forgets NaN: np.argmax(a) on the raw column.
nanargmaxPlain(a) ==
    IF Len(a) = 0 THEN Raise("ValueError") ELSE Ok(ArgmaxFrom(a, 2, 1))

\* np.nanargmax(a): NaN is replaced by -inf, then argmax; an empty or
\* all-NaN array raises ValueError.
nanargmax(a) ==
    IF \A i \in 1..Len(a) : a[i].k = "nan" THEN Raise("ValueError")
    ELSE Ok(ArgmaxFrom([i \in 1..Len(a) |->
                          IF a[i].k = "nan" THEN NegInf ELSE a[i]], 2, 1))

\* np.nanargmin(a): NaN is replaced by +inf, then argmin.
nanargmin(a) ==
    IF \A i \in 1..Len(a) : a[i].k = "nan" THEN Raise("ValueError")
    ELSE Ok(ArgminFrom([i \in 1..Len(a) |->
                          IF a[i].k = "nan" THEN PosInf ELSE a[i]], 2, 1))

(***************************************************************************)
(* _writeReportData(outfile, propdata, reviewdata, names, modelname): the  *)
(* writes it makes, in order.                                              *)
(***************************************************************************)
Rule ==
    "-------------------------------------------------------------------------------\n"

\* "Start:    %s\n" % data["Time"][0] and "\nEnd: %s\n" % data["Time"][-1]
TimeLine(label, data, i) ==
    LET t == At(data, "Time", i)
    IN  IF t.err # "none" THEN WRaise(t.err)
        ELSE W(label \o FormatS(t.val) \o "\n")

\* "    %s: %s\n" for a string column, "    %s: %f\n" for a numeric one
ValueLine(data, name, i) ==
    LET x == At(data, name, i)
    IN  IF x.err # "none" THEN WRaise(x.err)
        ELSE W("    " \o name \o ": "
               \o (IF IsOpaque(name) THEN FormatS(x.val) ELSE FormatF(x.val))
               \o "\n")

\* "    %s: %f  (%s)\n" % (name, data[name][ind], data["Time"][ind])
ExtremeLine(data, name, ind) ==
    IF ind.err # "none" THEN WRaise(ind.err)
    ELSE LET x == At(data, name, ind.val)
             t == At(data, "Time", ind.val)
         IN  IF x.err # "none" THEN WRaise(x.err)
             ELSE IF t.err # "none" THEN WRaise(t.err)
             ELSE W("    " \o name \o ": " \o FormatF(x.val) \o "  ("
                    \o FormatS(t.val) \o ")\n")

MaxLine(data, name) ==
    IF name \notin DOMAIN data THEN WRaise("KeyError")
    ELSE ExtremeLine(data, name, nanargmax(data[name]))

MinLine(data, name) ==
    IF name \notin DOMAIN data THEN WRaise("KeyError")
    ELSE ExtremeLine(data, name, nanargmin(data[name]))

NumericNames(names) ==
    SelectSeq(names, LAMBDA name : ~IsOpaque(name))

_writeReportData(propdata, reviewdata, names, modelname) ==
    LET numeric == NumericNames(names)
    IN  RunWrites(
            << W(Rule), W(modelname \o " Report\n"), W(Rule \o "\n"),
               W("Propagation:\n"), W("------------\n"),
               TimeLine("Start:    ", propdata, 0) >>
            \o [i \in 1..Len(names) |-> ValueLine(propdata, names[i], 0)]
            \o << W("\nReviewed Schedule:\n"), W("-------------------\n"),
                  TimeLine("Start:    ", reviewdata, 0) >>
            \o [i \in 1..Len(names) |-> ValueLine(reviewdata, names[i], 0)]
            \o << W("\nMax Values:\n") >>
            \o [i \in 1..Len(numeric) |-> MaxLine(reviewdata, numeric[i])]
            \o << W("\nMin Values:\n") >>
            \o [i \in 1..Len(numeric) |-> MinLine(reviewdata, numeric[i])]
            \o << TimeLine("\nEnd: ", reviewdata, -1) >>
            \o [i \in 1..Len(names) |->
                  ValueLine(reviewdata, names[i], -1)]
            \o << W("\n\n\n") >>)

(***************************************************************************)
(* writeChecklistData.  The result tells whether the report file was       *)
(* opened, what was written to it and to sys.stdout, the exception if any, *)
(* and self.headerinfo as the call leaves it.                              *)
(***************************************************************************)
ReportName(review) ==
    review \o "_Thermal_Load_Review_Report.txt"

RECURSIVE ChecklistLoop(_, _, _, _, _, _, _)
ChecklistLoop(i, prop, review, hi, dir, store, acc) ==
    IF i > Len(plotorder)
    THEN [acc EXCEPT !.hi = hi,
                     !.out = @ \o << "Wrote thermal report data to "
                                     \o ReportName(review)
                                     \o "_Thermal_Load_Review_Report.txt\n"
                                     \o "\n" >>]
    ELSE
    LET name == plotorder[i]
        stop(e, h) == [acc EXCEPT !.err = e, !.hi = h]
    IN  IF prop = None THEN stop("TypeError", hi)
        ELSE
        LET propdata == _readfile(dir, store, prop \o fileparts[name],
                                  hi[name])
            reviewdata == _readfile(dir, store, review \o fileparts[name],
                                    hi[name])
        IN  IF propdata.err # "none" THEN stop(propdata.err, hi)
            ELSE IF reviewdata.err # "none" THEN stop(reviewdata.err, hi)
            ELSE IF Len(hi[name].names) = 0 THEN stop("IndexError", hi)
            ELSE
            \* datanames is the list object stored in headerinfo:
            \* pop(0) removes its first entry there
            LET popped == [hi EXCEPT ![name].names = Tail(@)]
                datanames == popped[name].names
                tofile == _writeReportData(propdata.val, reviewdata.val,
                                           datanames, popped[name].title)
                toout == _writeReportData(propdata.val, reviewdata.val,
                                          datanames, popped[name].title)
                written == [acc EXCEPT !.file = @ \o tofile.out]
            IN  IF tofile.err # "none"
                THEN [written EXCEPT !.err = tofile.err, !.hi = popped]
                ELSE IF toout.err # "none"
                THEN [written EXCEPT !.err = toout.err, !.hi = popped,
                                     !.out = @ \o toout.out]
                ELSE ChecklistLoop(i + 1, prop, review, popped, dir, store,
                                   [written EXCEPT !.out = @ \o toout.out])

writeChecklistData(prop, review, hi, dir, store) ==
    IF review = None
    THEN [err |-> "TypeError", opened |-> FALSE, name |-> "", file |-> << >>,
          out |-> << >>, hi |-> hi]
    ELSE ChecklistLoop(1, prop, review, hi, dir, store,
                       [err |-> "none", opened |-> TRUE,
                        name |-> ReportName(review), file |-> << >>,
                        out |-> << >>, hi |-> hi])

(***************************************************************************)
(* writePropData.                                                          *)
(***************************************************************************)
EndingName(prop) ==
    prop \o "_Ending_Configuration.txt"

\* " %s : %f\n" % (loc, propdata[loc][-1])
PropLine(propdata, loc) ==
    LET x == At(propdata, loc, -1)
    IN  IF x.err # "none" THEN WRaise(x.err)
        ELSE IF IsOpaque(loc) THEN WRaise("TypeError")
        ELSE W(" " \o loc \o " : " \o FormatF(x.val) \o "\n")

PropWrites(propdata, datanames, num) ==
    LET listed == SelectSeq(datanames, LAMBDA loc : loc \in Range(propnames))
    IN  RunWrites(
            (IF num = 0
             THEN << TimeLine("Time of Validity:  ", propdata, -1) >>
             ELSE << >>)
            \o [i \in 1..Len(listed) |-> PropLine(propdata, listed[i])])

RECURSIVE PropLoop(_, _, _, _, _, _)
PropLoop(num, prop, hi, dir, store, acc) ==
    IF num >= Len(plotorder)
    THEN [acc EXCEPT !.out = @ \o << "Wrote propagation ending data to "
                                     \o EndingName(prop) \o "\n" >>]
    ELSE
    LET name == plotorder[num + 1]
        propdata == _readfile(dir, store, prop \o fileparts[name], hi[name])
    IN  IF propdata.err # "none" THEN [acc EXCEPT !.err = propdata.err]
        ELSE
        LET names == hi[name].names
            datanames == SubSeq(names, 2, Len(names))
            w == PropWrites(propdata.val, datanames, num)
            written == [acc EXCEPT !.file = @ \o w.out]
        IN  IF w.err # "none" THEN [written EXCEPT !.err = w.err]
            ELSE PropLoop(num + 1, prop, hi, dir, store, written)

writePropData(prop, hi, dir, store) ==
    IF prop = None
    THEN [err |-> "TypeError", opened |-> FALSE, name |-> "", file |-> << >>,
          out |-> << >>, hi |-> hi]
    ELSE PropLoop(0, prop, hi, dir, store,
                  [err |-> "none", opened |-> TRUE, name |-> EndingName(prop),
                   file |-> << >>, out |-> << >>, hi |-> hi])

(***************************************************************************)
(* LoadReviewTools.__init__: builds the registry, stores the two schedule  *)
(* names and calls one writer.                                             *)
(***************************************************************************)
\* A variant with the test turned round.
WriterForInverted(review) ==
    IF review # None THEN "writePropData" ELSE "writeChecklistData"

WriterFor(review) ==
    IF review = None THEN "writePropData" ELSE "writeChecklistData"

LoadReviewTools(prop, review, dir, store) ==
    IF WriterFor(review) = "writePropData"
    THEN writePropData(prop, InitHeaderinfo, dir, store)
    ELSE writeChecklistData(prop, review, InitHeaderinfo, dir, store)

(***************************************************************************)
(* The file system: a directory maps names to inodes, the store maps an    *)
(* inode to its content.  Hard links are names that share an inode.        *)
(***************************************************************************)
\* open(name, "w"), the writes, close(): an existing file is truncated in
\* place, a missing one is created.
WriteFile(dir, store, name, content) ==
    IF name \in DOMAIN dir
    THEN [dir |-> dir, store |-> [store EXCEPT ![dir[name]] = content]]
    ELSE [dir |-> (name :> (Len(store) + 1)) @@ dir,
          store |-> Append(store, content)]

NoDir ==
    [exists |-> FALSE, entries |-> << >>]

\* TemporaryDirectory(dir=os.path.dirname(dest)).__enter__()
mkdtemp ==
    [exists |-> TRUE, entries |-> << >>]

\* os.link(src, tmpname): a second name for the inode of src
os_link(dir, tmp, src) ==
    [tmp EXCEPT !.entries = ("foo" :> dir[src]) @@ @]

\* A variant that removes dest and the temporary name and installs nothing.
os_replace_unlink(par, tmp, dest) ==
    [parent |-> [n \in DOMAIN par \ {dest} |-> par[n]],
     tmp |-> [tmp EXCEPT !.entries =
                [n \in DOMAIN @ \ {"foo"} |-> @[n]]]]

\* os.replace(tmpname, dest): in one step dest names the inode of tmpname
\* and tmpname is gone; when both already name the same inode, rename(2)
\* does nothing and both names stay.
os_replace(par, tmp, dest) ==
    IF dest \in DOMAIN par /\ par[dest] = tmp.entries["foo"]
    THEN [parent |-> par, tmp |-> tmp]
    ELSE [parent |-> (dest :> tmp.entries["foo"]) @@ par,
          tmp |-> [tmp EXCEPT !.entries =
                     [n \in DOMAIN @ \ {"foo"} |-> @[n]]]]

\* TemporaryDirectory.__exit__(): the directory and what is left in it go
cleanup(tmp) ==
    NoDir

force_link(dir, par, src, dest) ==
    LET linked == os_link(dir, mkdtemp, src)
        replaced == os_replace(par, linked, dest)
    IN  [parent |-> replaced.parent, tmp |-> cleanup(replaced.tmp)]

\* The names a schedule's files can have: the schedule name and a suffix.
Suffixes ==
    { fileparts[k] : k \in DOMAIN fileparts }
    \cup { "_Thermal_Load_Review_Report.txt", "_Ending_Configuration.txt" }

StartsWith(name, prefix) ==
    \E s \in Suffixes : name = prefix \o s

\* glob.glob(prefix + "*"), listed in inode order
RECURSIVE InodeOrder(_, _)
InodeOrder(dir, names) ==
    IF names = {} THEN << >>
    ELSE LET n == CHOOSE x \in names : \A y \in names : dir[x] <= dir[y]
         IN  << n >> \o InodeOrder(dir, names \ {n})

glob(dir, prefix) ==
    IF prefix = None THEN Raise("TypeError")
    ELSE Ok(InodeOrder(dir, { n \in DOMAIN dir : StartsWith(n, prefix) }))

\* for file in glob.glob(...): force_link(file, "../" + file)
RECURSIVE PublishAll(_, _, _)
PublishAll(dir, par, files) ==
    IF files = << >> THEN par
    ELSE PublishAll(dir, force_link(dir, par, Head(files), Head(files)).parent,
                    Tail(files))

(***************************************************************************)
(* The plot files on disk.  A well-formed file has a header line and one   *)
(* line per row with one token per schema column; at most one file of one  *)
(* schedule departs from that.                                             *)
(***************************************************************************)
PropName ==
    "MAY0712A"

ReviewName ==
    "MAY1412A"

TimeTok(r) ==
    "2012:13" \o Digit[r + 1] \o ":00:00:00.000"

NumTok(r, i) ==
    << "1.0", "3.0", "5.0" >>[((r + i) % 3) + 1]

GoodRow(names, r) ==
    Tuple([i \in 1..Len(names) |->
             IF i = 1 THEN TimeTok(r)
             ELSE IF IsOpaque(names[i]) THEN "ACIS-S"
             ELSE NumTok(r, i)])

GoodFile(names, rows) ==
    << names >> \o [r \in 1..rows |-> GoodRow(names, r)]

FaultKinds ==
    { "missing", "empty", "norows", "short", "long", "text", "allnan" }

NoFault ==
    [model |-> "none", run |-> "none", kind |-> "none"]

\* The models whose file may be the faulty one: the first, a middle and
\* the last of plotorder.
FaultModels ==
    { plotorder[1], plotorder[4], plotorder[Len(plotorder)] }

Faults ==
    { NoFault }
    \cup [model : FaultModels, run : {PropName, ReviewName},
          kind : FaultKinds]

FaultyFile(names, rows, kind) ==
    LET good == GoodFile(names, rows)
        last == Len(good)
    IN  CASE kind = "empty" -> << >>
          [] kind = "norows" -> << names >>
          [] kind = "short" ->
               [good EXCEPT ![last] = SubSeq(@, 1, Len(@) - 1)]
          [] kind = "long" -> [good EXCEPT ![last] = Append(@, "9.9")]
          [] kind = "text" -> [good EXCEPT ![last][2] = "n/a"]
          [] kind = "allnan" ->
               Tuple([r \in 1..last |->
                        IF r = 1 THEN good[r]
                        ELSE [good[r] EXCEPT ![2] = "nan"]])
          [] OTHER -> good

FileModels ==
    << "psmc", "dpa", "dea", "tank", "aca", "mups", "oba", "pline03t",
       "pline04t", "hrc", "acisfp" >>

PlotFiles(fault, rows) ==
    Tuple([k \in 1..(2 * Len(FileModels)) |->
       LET run == IF k <= Len(FileModels) THEN PropName ELSE ReviewName
           model == FileModels[((k - 1) % Len(FileModels)) + 1]
           hit == fault.model = model /\ fault.run = run
           names == InitHeaderinfo[model].names
       IN  [name |-> run \o fileparts[model],
            present |-> ~(hit /\ fault.kind = "missing"),
            content |-> IF hit THEN FaultyFile(names, rows, fault.kind)
                        ELSE GoodFile(names, rows)]])

OldReport ==
    << "report of an earlier run\n" >>

Priors ==
    { "fresh", "published" }

\* The working directory, the parent directory and the store before the
\* program starts.  "published": an earlier run wrote the report and linked
\* the review schedule's files into the parent directory.
Disk(files, prior) ==
    LET plots == Fcn([n \in { files[k].name :
                                k \in { j \in 1..Len(files) :
                                           files[j].present } }
                        |-> CHOOSE k \in 1..Len(files) : files[k].name = n])
        old == Len(files) + 1
    IN  [dir |-> IF prior = "published"
                 THEN (ReportName(ReviewName) :> old) @@ plots
                 ELSE plots,
         store |-> [k \in 1..Len(files) |-> files[k].content]
                   \o (IF prior = "published" THEN << OldReport >>
                       ELSE << >>),
         parent |-> IF prior = "published"
                    THEN (ReportName(ReviewName) :> old)
                         @@ [n \in { m \in DOMAIN plots :
                                       StartsWith(m, ReviewName) }
                               |-> plots[n]]
                    ELSE << >>]

Contents(dir, store) ==
    Fcn([n \in DOMAIN dir |-> store[dir[n]]])

NotRead ==
    [state |-> "none", name |-> "", content |-> << >>]

(***************************************************************************)
(* The program: argparse, then the two guarded constructions, then the     *)
(* publish loop.                                                           *)
(***************************************************************************)
ArgSets ==
    [Propschedule : {None, PropName},
     Reviewschedule : {None, ReviewName},
     OutputPropEndingConfiguration : BOOLEAN,
     OutputThermalReport : BOOLEAN]

InitDisk(disk) ==
    /\ cwd = disk.dir
    /\ inodes = disk.store
    /\ parent = disk.parent
    /\ before = Contents(disk.parent, disk.store)
    /\ tmpdir = NoDir
    /\ todo = << >>
    /\ seen = NotRead

Init ==
    \E a \in ArgSets, fault \in Faults, rows \in 1..MaxRows,
       prior \in Priors :
        \E files \in { PlotFiles(fault, rows) } :
            \E disk \in { Disk(files, prior) } :
                /\ pc = "prop"
                /\ err = "none"
                /\ where = "none"
                /\ args = a
                /\ invoked = << >>
                /\ headerinfo = InitHeaderinfo
                /\ propschedule = None
                /\ reviewschedule = None
                /\ stdout = << >>
                /\ result = << >>
                /\ InitDisk(disk)

\* LoadReviewTools(propschedule=..., reviewschedule=...) at the top level:
\* an exception it raises ends the program.
Construct(prop, review, next) ==
    \E r \in { LoadReviewTools(prop, review, cwd, inodes) } :
        \E fs \in { IF r.opened
                     THEN WriteFile(cwd, inodes, r.name, r.file)
                     ELSE [dir |-> cwd, store |-> inodes] } :
            /\ invoked' = Append(invoked, WriterFor(review))
            /\ headerinfo' = r.hi
            /\ propschedule' = prop
            /\ reviewschedule' = review
            /\ cwd' = fs.dir
            /\ inodes' = fs.store
            /\ stdout' = stdout \o r.out
            /\ err' = r.err
            /\ where' = IF r.err = "none" THEN where ELSE WriterFor(review)
            /\ pc' = IF r.err = "none" THEN next ELSE "error"
            /\ UNCHANGED << args, parent, before, tmpdir, todo, result,
                            seen >>

\* if args["OutputPropEndingConfiguration"]: LoadReviewTools(propschedule=...)
OutputPropEndingConfiguration ==
    /\ pc = "prop"
    /\ args.OutputPropEndingConfiguration
    /\ Construct(args.Propschedule, None, "report")

SkipPropEndingConfiguration ==
    /\ pc = "prop"
    /\ ~args.OutputPropEndingConfiguration
    /\ pc' = "report"
    /\ UNCHANGED << err, where, args, invoked, headerinfo, propschedule,
                    reviewschedule, cwd, inodes, parent, before, tmpdir, todo,
                    stdout, result, seen >>

\* if args["OutputThermalReport"]: LoadReviewTools(propschedule=...,
\* reviewschedule=...)
OutputThermalReport ==
    /\ pc = "report"
    /\ args.OutputThermalReport
    /\ Construct(args.Propschedule, args.Reviewschedule, "publish")

SkipThermalReport ==
    /\ pc = "report"
    /\ ~args.OutputThermalReport
    /\ pc' = "publish"
    /\ UNCHANGED << err, where, args, invoked, headerinfo, propschedule,
                    reviewschedule, cwd, inodes, parent, before, tmpdir, todo,
                    stdout, result, seen >>

\* for file in glob.glob(args["Reviewschedule"] + "*"): force_link(...)
Publish ==
    /\ pc = "publish"
    /\ LET files == glob(cwd, args.Reviewschedule)
       IN  /\ err' = files.err
           /\ where' = IF files.err = "none" THEN where ELSE "glob"
           /\ pc' = IF files.err = "none" THEN "done" ELSE "error"
           /\ parent' = IF files.err = "none"
                        THEN PublishAll(cwd, parent, files.val)
                        ELSE parent
    /\ UNCHANGED << args, invoked, headerinfo, propschedule, reviewschedule,
                    cwd, inodes, before, tmpdir, todo, stdout, result, seen >>

Next ==
    \/ OutputPropEndingConfiguration
    \/ SkipPropEndingConfiguration
    \/ OutputThermalReport
    \/ SkipThermalReport
    \/ Publish

Spec ==
    Init /\ [][Next]_vars

(***************************************************************************)
(* Properties of the program run (specification Spec).                     *)
(***************************************************************************)
\* Every plot file of the schedule that the writers read is on disk and
\* well formed.
WellFormedRun(run) ==
    \A k \in 1..Len(plotorder) :
        /\ run \o fileparts[plotorder[k]] \in DOMAIN cwd
        /\ \E rows \in 1..MaxRows :
             inodes[cwd[run \o fileparts[plotorder[k]]]]
                 = GoodFile(InitHeaderinfo[plotorder[k]].names, rows)

\* The number of (model, column) pairs of the display order whose column is
\* not Time and is on the allow-list.
AllowListed ==
    { << k, i >> \in (1..Len(plotorder)) \X (2..23) :
        /\ i <= Len(InitHeaderinfo[plotorder[k]].names)
        /\ InitHeaderinfo[plotorder[k]].names[i] \in Range(propnames) }

\* C1: on well-formed plot files of a propagation run writePropData runs to
\* completion and leaves in <name>_Ending_Configuration.txt the Time of
\* Validity line followed by one line per allow-listed column of every
\* display-order model.
EndingConfigurationComplete ==
    ( /\ invoked # << >>
      /\ invoked[1] = "writePropData"
      /\ args.Propschedule # None
      /\ WellFormedRun(args.Propschedule) )
    => /\ where # "writePropData"
       /\ EndingName(args.Propschedule) \in DOMAIN cwd
       /\ Len(inodes[cwd[EndingName(args.Propschedule)]])
              = 1 + Cardinality(AllowListed)

\* The writers the command line asks for: the first construction is made
\* without a review schedule, the second with the one given.
Planned ==
    (IF args.OutputPropEndingConfiguration
     THEN << "writePropData" >> ELSE << >>)
    \o (IF args.OutputThermalReport
        THEN << IF args.Reviewschedule = None
                THEN "writePropData" ELSE "writeChecklistData" >>
        ELSE << >>)

\* C2 as stated: once the constructions are over, writePropData has been
\* invoked exactly when only a propagation run was given and
\* writeChecklistData exactly when both runs were given, whatever the flags.
WriterSelectedByReviewRunAlone ==
    pc \in {"publish", "done"} =>
        /\ "writePropData" \in Range(invoked)
             <=> (args.Propschedule # None /\ args.Reviewschedule = None)
        /\ "writeChecklistData" \in Range(invoked)
             <=> (args.Propschedule # None /\ args.Reviewschedule # None)

\* C2 amended: the writers invoked are those the two flags ask for, in
\* order, each chosen by the review schedule its construction is given; a
\* run that reaches the publish step has invoked all of them, one that
\* ended earlier ended in the last writer it invoked.
WriterSelectedByFlagsAndReviewRun ==
    /\ Len(invoked) <= Len(Planned)
    /\ invoked = SubSeq(Planned, 1, Len(invoked))
    /\ pc \in {"publish", "done"} => invoked = Planned
    /\ where = "glob" => invoked = Planned
    /\ pc = "prop" => invoked = << >>
    /\ (pc = "error" /\ where # "glob") =>
           /\ invoked # << >>
           /\ where = invoked[Len(invoked)]

\* Witness of C2: both runs are given, and the flag makes the program call
\* the ending-configuration writer all the same.
WriterSelectedWitness ==
    /\ args.Propschedule # None
    /\ args.Reviewschedule # None
    /\ args.OutputPropEndingConfiguration
    /\ invoked = << "writePropData" >>

\* C3: a run of writeChecklistData that ends in a fatal error leaves no
\* section of any model in the report file or on standard output.
FatalErrorLeavesNoSection ==
    ( /\ pc = "error"
      /\ where = "writeChecklistData" )
    => /\ stdout = << >>
       /\ inodes[cwd[ReportName(reviewschedule)]] = << >>

\* C6: a run given no review-run identifier does not end in an error raised
\* by the publish step.
PublishWithoutReviewRun ==
    (pc = "error" /\ args.Reviewschedule = None) => where # "glob"

\* The twelve model keys the registry is to answer for.
ModelKeys ==
    { "psmc", "dpa", "dea", "tank", "aca", "mups", "cc", "oba",
      "pline03t", "pline04t", "hrc", "acisfp" }

\* C8: each of the twelve model keys has a file suffix and a schema whose
\* names start with Time and are as many as its column count.
SchemaRegistryComplete ==
    pc = "prop" =>
        \A k \in ModelKeys :
            /\ k \in DOMAIN fileparts
            /\ k \in DOMAIN headerinfo
            /\ headerinfo[k].names[1] = "Time"
            /\ Len(headerinfo[k].names) = headerinfo[k].columns

\* What print() wrote at the end of a writer: not part of the report.
Notices ==
    { "Wrote thermal report data to " \o ReportName(ReviewName)
          \o "_Thermal_Load_Review_Report.txt\n" \o "\n",
      "Wrote propagation ending data to " \o EndingName(PropName) \o "\n" }

\* C9: whenever writeChecklistData has stopped, the sections on standard
\* output are the sections in the report file, line by line.
ReportMirrored ==
    ( /\ invoked # << >>
      /\ invoked[Len(invoked)] = "writeChecklistData" )
    => SelectSeq(stdout, LAMBDA line : line \notin Notices)
           = inodes[cwd[ReportName(reviewschedule)]]

\* C10: every schema keeps the column names it was built with.
SchemasNeverMutated ==
    \A k \in DOMAIN InitHeaderinfo :
        /\ headerinfo[k].names = InitHeaderinfo[k].names
        /\ headerinfo[k].names[1] = "Time"
        /\ Len(headerinfo[k].names) = headerinfo[k].columns

(***************************************************************************)
(* The parser on its own (specification SpecParse): one call of _readfile  *)
(* on a file whose lines may have one token too few or too many and whose  *)
(* second column may hold NaN or text.                                     *)
(***************************************************************************)
ParseTokens ==
    { "1.0", "nan", "n/a" }

\* Row r of a file for the schema: extra is -1, 0 or 1 token more than the
\* schema has names; tok is the token of the second column.
ParseRow(names, r, extra, tok) ==
    LET good == GoodRow(names, r)
    IN  CASE extra < 0 -> SubSeq([good EXCEPT ![2] = tok], 1, Len(good) - 1)
          [] extra > 0 -> Append([good EXCEPT ![2] = tok], "9.9")
          [] OTHER -> [good EXCEPT ![2] = tok]

ParseFiles(names) ==
    UNION { { << names >> \o [r \in 1..n |-> ParseRow(names, r, k[r][1],
                                                       k[r][2])] :
                k \in [1..n -> {-1, 0, 1} \X ParseTokens] } :
            n \in 0..MaxParseRows }

\* The variables a specification of a single call does not use.
NoProgram ==
    /\ err = "none"
    /\ where = "none"
    /\ invoked = << >>
    /\ propschedule = None
    /\ reviewschedule = None
    /\ parent = << >>
    /\ before = << >>
    /\ tmpdir = NoDir
    /\ todo = << >>
    /\ stdout = << >>
    /\ seen = NotRead

InitParse ==
    \E key \in DOMAIN InitHeaderinfo :
        \E file \in ParseFiles(InitHeaderinfo[key].names) :
            /\ pc = "call"
            /\ args = [filename |-> PropName \o "_plot.txt", key |-> key]
            /\ headerinfo = InitHeaderinfo
            /\ cwd = (PropName \o "_plot.txt" :> 1)
            /\ inodes = << file >>
            /\ result = Raise("none")
            /\ NoProgram

\* self._readfile(filename, self.headerinfo[name])
ReadFile ==
    /\ pc = "call"
    /\ result' = _readfile(cwd, inodes, args.filename, headerinfo[args.key])
    /\ pc' = "returned"
    /\ UNCHANGED << err, where, args, invoked, headerinfo, propschedule,
                    reviewschedule, cwd, inodes, parent, before, tmpdir, todo,
                    stdout, seen >>

NextParse ==
    ReadFile

SpecParse ==
    InitParse /\ [][NextParse]_vars

DataLines ==
    Tail(inodes[cwd[args.filename]])

SchemaNames ==
    InitHeaderinfo[args.key].names

SomeLineShort ==
    \E r \in 1..Len(DataLines) : Len(DataLines[r]) < Len(SchemaNames)

SomeLineLong ==
    \E r \in 1..Len(DataLines) : Len(DataLines[r]) > Len(SchemaNames)

\* C7 as stated: a file with a data line whose token count differs from the
\* schema's column count, fewer or more, makes the parse end in an error.
TokenCountMismatchFails ==
    (pc = "returned" /\ (SomeLineShort \/ SomeLineLong))
    => result.err # "none"

\* C7 amended: a data line with fewer tokens than the schema has columns
\* makes the parse end in an error and return no table; tokens beyond the
\* schema's columns are ignored, so a file whose lines have at least the
\* schema's count of tokens, with numbers in the numeric columns, parses
\* into a table of the leading tokens.
ShortLineFailsLongLineIgnored ==
    pc = "returned" =>
        /\ SomeLineShort =>
               /\ result.err \in {"IndexError", "ValueError"}
               /\ result.val = << >>
        /\ ( /\ ~SomeLineShort
             /\ \A r \in 1..Len(DataLines) : DataLines[r][2] # "n/a" )
           => /\ result.err = "none"
              /\ DOMAIN result.val = Range(SchemaNames)
              /\ \A i \in 1..Len(SchemaNames) :
                     /\ Len(result.val[SchemaNames[i]]) = Len(DataLines)
                     /\ \A r \in 1..Len(DataLines) :
                            result.val[SchemaNames[i]][r]
                                = IF lower[SchemaNames[i]] \in OpaqueNames
                                  THEN DataLines[r][i]
                                  ELSE np_double[DataLines[r][i]]

\* Witness of C7: a line with a token too many was parsed without error.
LongLineParsedWitness ==
    /\ pc = "returned"
    /\ SomeLineLong
    /\ ~SomeLineShort
    /\ result.err = "none"

(***************************************************************************)
(* One report section on its own (specification SpecReport): a review file *)
(* is parsed and _writeReportData is called on it the way                  *)
(* writeChecklistData calls it.                                            *)
(***************************************************************************)
ReportTokens ==
    { "1.0", "3.0", "5.0", "nan", "-inf", "inf" }

ReportModels ==
    { "oba", "acisfp" }

\* The file whose numeric columns hold the tokens of vals, top to bottom in
\* the even columns and bottom to top in the odd ones.
ReportFile(names, vals) ==
    << names >>
    \o [r \in 1..Len(vals) |->
          [i \in 1..Len(names) |->
             IF i = 1 THEN TimeTok(r)
             ELSE IF IsOpaque(names[i]) THEN "ACIS-S"
             ELSE IF i % 2 = 0 THEN vals[r]
             ELSE vals[Len(vals) + 1 - r]]]

InitReport ==
    \E key \in ReportModels, n \in 1..MaxReportRows :
        \E vals \in [1..n -> ReportTokens] :
            /\ pc = "call"
            /\ args = [filename |-> ReviewName \o fileparts[key], key |-> key]
            /\ headerinfo = InitHeaderinfo
            /\ cwd = (ReviewName \o fileparts[key] :> 1)
            /\ inodes = << ReportFile(InitHeaderinfo[key].names, vals) >>
            /\ result = Raise("none")
            /\ NoProgram

\* reviewdata = self._readfile(filename, self.headerinfo[name])
ReadReviewFile ==
    /\ pc = "call"
    /\ result' = _readfile(cwd, inodes, args.filename, headerinfo[args.key])
    /\ pc' = "parsed"
    /\ UNCHANGED << err, where, args, invoked, headerinfo, propschedule,
                    reviewschedule, cwd, inodes, parent, before, tmpdir, todo,
                    stdout, seen >>

\* datanames.pop(0); self._writeReportData(sys.stdout, propdata,
\* reviewdata, datanames, title)
WriteSection ==
    /\ pc = "parsed"
    /\ result.err = "none"
    /\ LET popped == Tail(headerinfo[args.key].names)
           w == _writeReportData(result.val, result.val, popped,
                                 headerinfo[args.key].title)
       IN  /\ headerinfo' = [headerinfo EXCEPT ![args.key].names = popped]
           /\ stdout' = stdout \o w.out
           /\ err' = w.err
           /\ where' = IF w.err = "none" THEN where ELSE "_writeReportData"
    /\ pc' = "written"
    /\ UNCHANGED << args, invoked, propschedule, reviewschedule, cwd, inodes,
                    parent, before, tmpdir, todo, result, seen >>

NextReport ==
    \/ ReadReviewFile
    \/ WriteSection

SpecReport ==
    InitReport /\ [][NextReport]_vars

\* The numeric columns of the section, in order.
NumericColumns ==
    SelectSeq(Tail(InitHeaderinfo[args.key].names),
              LAMBDA name : lower[name] \notin OpaqueNames)

\* Where the section's Max Values and Min Values headers stand: after the
\* three title lines, two blocks of two headers, a Start line and a line
\* per column.
MaxHeaderAt ==
    3 + 2 * (3 + Len(InitHeaderinfo[args.key].names) - 1) + 1

MinHeaderAt ==
    MaxHeaderAt + Len(NumericColumns) + 1

NonNaN(col) ==
    { i \in 1..Len(col) : col[i].k # "nan" }

\* The lowest index of a greatest (least) non-NaN value of the column.
FirstMaxIndex(col) ==
    Min({ i \in NonNaN(col) : \A j \in NonNaN(col) : ~Less(col[i], col[j]) })

FirstMinIndex(col) ==
    Min({ i \in NonNaN(col) : \A j \in NonNaN(col) : ~Less(col[j], col[i]) })

ExpectedLine(name, i) ==
    "    " \o name \o ": " \o FormatF(result.val[name][i]) \o "  ("
    \o FormatS(result.val["Time"][i]) \o ")\n"

PublishedModels ==
    << "oba", "acisfp" >>

\* How a destination stands before the loop: not there, a link to the
\* source left by an earlier run, or another file of that name.
DestKinds ==
    { "absent", "linked", "foreign" }

InitPublish ==
    \E review \in {None, ReviewName}, kind \in [1..3 -> DestKinds] :
        LET names == << ReportName(ReviewName),
                        ReviewName \o fileparts[PublishedModels[1]],
                        ReviewName \o fileparts[PublishedModels[2]] >>
            other == PropName \o fileparts[PublishedModels[1]]
            store == << << "report\n" >>,
                        GoodFile(InitHeaderinfo[PublishedModels[1]].names, 1),
                        GoodFile(InitHeaderinfo[PublishedModels[2]].names, 1),
                        GoodFile(InitHeaderinfo[PublishedModels[1]].names, 1),
                        << "older report\n" >>,
                        << << "older" >> >>,
                        << << "older" >> >> >>
            there == { i \in 1..3 : kind[i] # "absent" }
            par == [n \in { names[i] : i \in there } |->
                      LET i == CHOOSE j \in there : names[j] = n
                      IN  IF kind[i] = "linked" THEN i ELSE 4 + i]
        IN  /\ pc = "publish"
            /\ args = [Propschedule |-> PropName, Reviewschedule |-> review,
                       OutputPropEndingConfiguration |-> FALSE,
                       OutputThermalReport |-> review # None]
            /\ invoked = IF review = None THEN << >>
                         ELSE << "writeChecklistData" >>
            /\ headerinfo = InitHeaderinfo
            /\ propschedule = PropName
            /\ reviewschedule = review
            /\ cwd = (names[1] :> 1) @@ (names[2] :> 2) @@ (names[3] :> 3)
                     @@ (other :> 4)
            /\ inodes = store
            /\ parent = par
            /\ before = Contents(par, store)
            /\ tmpdir = NoDir
            /\ todo = << >>
            /\ stdout = << >>
            /\ result = << >>
            /\ seen = NotRead
            /\ err = "none"
            /\ where = "none"

\* glob.glob(args["Reviewschedule"] + "*")
Glob ==
    /\ pc = "publish"
    /\ LET files == glob(cwd, args.Reviewschedule)
       IN  /\ err' = files.err
           /\ where' = IF files.err = "none" THEN where ELSE "glob"
           /\ todo' = files.val
           /\ pc' = IF files.err = "none" THEN "loop" ELSE "error"
    /\ UNCHANGED << args, invoked, headerinfo, propschedule, reviewschedule,
                    cwd, inodes, parent, before, tmpdir, stdout, result,
                    seen >>

\* with TemporaryDirectory(dir=os.path.dirname(dest)) as d:
EnterTemporaryDirectory ==
    /\ pc = "loop"
    /\ todo # << >>
    /\ tmpdir' = mkdtemp
    /\ pc' = "link"
    /\ UNCHANGED << err, where, args, invoked, headerinfo, propschedule,
                    reviewschedule, cwd, inodes, parent, before, todo, stdout,
                    result, seen >>

\* os.link(src, tmpname)
Link ==
    /\ pc = "link"
    /\ tmpdir' = os_link(cwd, tmpdir, Head(todo))
    /\ pc' = "replace"
    /\ UNCHANGED << err, where, args, invoked, headerinfo, propschedule,
                    reviewschedule, cwd, inodes, parent, before, todo, stdout,
                    result, seen >>

\* os.replace(tmpname, dest)
Replace ==
    /\ pc = "replace"
    /\ LET r == os_replace(parent, tmpdir, Head(todo))
       IN  /\ parent' = r.parent
           /\ tmpdir' = r.tmp
    /\ pc' = "exit"
    /\ UNCHANGED << err, where, args, invoked, headerinfo, propschedule,
                    reviewschedule, cwd, inodes, before, todo, stdout, result,
                    seen >>

\* leaving the with block, and on to the next file
ExitTemporaryDirectory ==
    /\ pc = "exit"
    /\ tmpdir' = cleanup(tmpdir)
    /\ todo' = Tail(todo)
    /\ pc' = "loop"
    /\ UNCHANGED << err, where, args, invoked, headerinfo, propschedule,
                    reviewschedule, cwd, inodes, parent, before, stdout,
                    result, seen >>

\* the loop is over and the program ends
Finish ==
    /\ pc = "loop"
    /\ todo = << >>
    /\ pc' = "done"
    /\ UNCHANGED << err, where, args, invoked, headerinfo, propschedule,
                    reviewschedule, cwd, inodes, parent, before, tmpdir, todo,
                    stdout, result, seen >>

\* Another process opens and reads a file of the parent directory that was
\* there before the loop.
Reader ==
    /\ pc \in {"loop", "link", "replace", "exit"}
    /\ \E n \in DOMAIN before :
         seen' = IF n \in DOMAIN parent
                 THEN [state |-> "read", name |-> n,
                       content |-> inodes[parent[n]]]
                 ELSE [state |-> "missing", name |-> n, content |-> << >>]
    /\ UNCHANGED << pc, err, where, args, invoked, headerinfo, propschedule,
                    reviewschedule, cwd, inodes, parent, before, tmpdir, todo,
                    stdout, result >>

NextPublish ==
    \/ Glob
    \/ EnterTemporaryDirectory
    \/ Link
    \/ Replace
    \/ ExitTemporaryDirectory
    \/ Finish
    \/ Reader

SpecPublish ==
    InitPublish /\ [][NextPublish]_vars

\* The files the loop has finished with.
Linked ==
    IF pc \in {"loop", "link", "replace", "exit", "done"}
    THEN { n \in DOMAIN cwd : StartsWith(n, ReviewName) }
         \ (IF pc = "exit" THEN Range(Tail(todo)) ELSE Range(todo))
    ELSE {}

\* C4: while the loop runs, a destination that existed before it is always
\* there and holds either the file it held or the source file, and so does
\* whatever a reader got from it; once a file is linked its destination is
\* the source file, and when the loop is over no temporary directory is
\* left.
PublishIsAtomicReplace ==
    /\ \A n \in DOMAIN before :
           /\ n \in DOMAIN parent
           /\ inodes[parent[n]] \in {before[n], inodes[cwd[n]]}
    /\ seen.state # "missing"
    /\ seen.state = "read" =>
           seen.content \in {before[seen.name], inodes[cwd[seen.name]]}
    /\ \A n \in Linked :
           /\ n \in DOMAIN parent
           /\ parent[n] = cwd[n]
    /\ pc = "done" =>
           /\ ~tmpdir.exists
           /\ Linked = { n \in DOMAIN cwd : StartsWith(n, ReviewName) }
           /\ DOMAIN parent = Linked

\* Witness of C4: a reader got the older report while the source report
\* was already linked under the temporary name, and the loop then ended
\* with the destination replaced.
PublishWitness ==
    /\ pc = "done"
    /\ seen.state = "read"
    /\ seen.name = ReportName(ReviewName)
    /\ seen.content = << "older report\n" >>
    /\ inodes[parent[ReportName(ReviewName)]] = << "report\n" >>
====
